---- MODULE Spec2Model ----
(***************************************************************************)
(* A model of tools/typst-dom/src/typst-debug-info.mts: the source-path    *)
(* resolver (resolveSourceLeaf), the click locator (resolveFrameLoc and    *)
(* the click handler installed on a document root) and the scroll target   *)
(* computation (scrollTo).                                                 *)
(*                                                                         *)
(* The DOM is a forest of numbered elements: children[n] is the ordered    *)
(* list of child elements of n and classList[n] its set of CSS classes.    *)
(* JavaScript numbers are modelled exactly (integers and rationals) with   *)
(* the IEEE special values NaN and the infinities kept apart.              *)
(***************************************************************************)
EXTENDS Integers, Sequences, FiniteSets, TLC

VARIABLES
    children,     \* element -> sequence of its child elements (document order)
    classList,    \* element -> set of class names
    attributes,   \* element -> [number, width, height]: the data-page-* strings
    rects,        \* element -> bounding client rectangle
    used,         \* the elements that exist
    phase,        \* position of the driver of the specification at hand
    path,         \* resolveSourceLeaf: the path argument of the last call
    leaf,         \* resolveSourceLeaf: the outcome of the last call
    base,         \* resolveSourceLeaf: the outcome on the tree before wrapping
    wraps,        \* number of wrappers inserted so far
    docRoot,      \* the element the handler is installed on
    handlerProp,  \* docRoot.sourceMappingHandler (NoHandler when absent)
    listeners,    \* click listeners registered on docRoot, in order
    installs,     \* closures created so far by installEditorJumpToHandler
    calls,        \* the calls of install / remove made so far, in order
    view,         \* the window: inner size, rectangle of document.body
    microtasks,   \* handler invocations suspended at their await
    effects,      \* calls made to the websocket and to triggerRipple, in order
    clicks,       \* per dispatched click: what each invoked handler resolved
    scrollArgs,   \* scrollTo: the arguments and environment of the last call
    scrollOut     \* scrollTo: the calls it made

vars == <<children, classList, attributes, rects, used, phase, path, leaf, base,
          wraps, docRoot, handlerProp, listeners, installs, calls, view, microtasks,
          effects, clicks, scrollArgs, scrollOut>>

domVars == <<children, classList, attributes, rects, used>>
leafVars == <<path, leaf, base, wraps>>
handlerVars == <<docRoot, handlerProp, listeners, installs, calls, microtasks, effects, clicks>>
scrollVars == <<view, scrollArgs, scrollOut>>

(***************************************************************************)
(* Bounds of the model.                                                    *)
(***************************************************************************)
MaxNodes == 3        \* elements below the root of a resolver tree
MaxWraps == 2        \* wrappers inserted around nodes of a descent
MaxPoints == 2       \* path points after the root marker
MaxDomNodes == 3     \* elements of the document a click walks through
MaxCalls == 3        \* calls of installEditorJumpToHandler / removeSourceMappingHandler
MaxClicks == 2       \* click events dispatched

(***************************************************************************)
(* SourceMappingType                                                       *)
(***************************************************************************)
Text == 0
Group == 1
Image == 2
Shape == 3
Page == 4
CharIndex == 5

\* An absent element: undefined (getElementsByClassName(..)[0]) or null.
NoElem == 0

CssClassToType ==
    << <<"typst-text", Text>>, <<"typst-group", Group>>, <<"typst-image", Image>>,
       <<"typst-shape", Shape>>, <<"typst-page", Page>>, <<"tsel", CharIndex>> >>

\* The value `undefined` returned by a classifier, and a classified element.
NotMapped == [ok |-> FALSE, ty |-> Text, elem |-> NoElem]
Mapped(ty, elem) == [ok |-> TRUE, ty |-> ty, elem |-> elem]

RECURSIVE FirstClass(_, _)
FirstClass(elem, i) ==
    IF i > Len(CssClassToType) THEN NotMapped
    ELSE IF CssClassToType[i][1] \in classList[elem]
         THEN Mapped(CssClassToType[i][2], elem)
         ELSE FirstClass(elem, i + 1)

castToSourceMappingElement(elem) ==
    IF classList[elem] = {} THEN NotMapped ELSE FirstClass(elem, 1)

\* The classifier that does not look below the element: a plausible slip in
\* castChildrenToSourceMappingElement.
castToNestMutant(elem) == castToSourceMappingElement(elem)

RECURSIVE castToNestSourceMappingElement(_)
castToNestSourceMappingElement(elem) ==
    LET result == castToSourceMappingElement(elem) IN
    IF result.ok THEN result
    ELSE IF Len(children[elem]) # 1 THEN NotMapped
         ELSE castToNestSourceMappingElement(children[elem][1])

castChildrenToSourceMappingElement(elem) ==
    LET mapped == [i \in 1..Len(children[elem]) |->
                      castToNestSourceMappingElement(children[elem][i])]
    IN SelectSeq(mapped, LAMBDA x : x.ok)

\* The descendants of elem in document order (elem itself excluded).
RECURSIVE Descendants(_)
RECURSIVE DescendantsOfAll(_)
Descendants(elem) == DescendantsOfAll(children[elem])
DescendantsOfAll(s) ==
    IF s = <<>> THEN <<>>
    ELSE <<Head(s)>> \o Descendants(Head(s)) \o DescendantsOfAll(Tail(s))

\* elem.getElementsByClassName(cls)[0]
FirstByClassName(elem, cls) ==
    LET hits == SelectSeq(Descendants(elem), LAMBDA n : cls \in classList[n])
    IN IF hits = <<>> THEN NoElem ELSE hits[1]

(***************************************************************************)
(* Outcomes of resolveSourceLeaf: the pair [Element, number], the value    *)
(* undefined, or a TypeError thrown out of the call.                       *)
(***************************************************************************)
LeafPair(elem, offset) == [tag |-> "pair", elem |-> elem, offset |-> offset]
LeafUndefined == [tag |-> "undefined", elem |-> NoElem, offset |-> 0]
LeafThrows == [tag |-> "TypeError", elem |-> NoElem, offset |-> 0]
LeafNotRun == [tag |-> "none", elem |-> NoElem, offset |-> 0]

\* A CharIndex point used with offset 0: the offset of the point dropped.
CharIndexDropped(curElem, point) == LeafPair(curElem, 0)

\* return [curElem, point.index]
CharIndexResult(curElem, point) == LeafPair(curElem, point.index)

\* The body of the for loop over path.slice(1); curElem may be NoElem.
RECURSIVE LeafLoop(_, _)
LeafLoop(curElem, points) ==
    IF points = <<>> THEN LeafPair(curElem, 0)
    ELSE LET point == Head(points) IN
         IF point.kind = CharIndex THEN CharIndexResult(curElem, point)
         ELSE IF curElem = NoElem THEN LeafThrows      \* undefined.children
         ELSE LET cs == castChildrenToSourceMappingElement(curElem) IN
              IF point.index >= Len(cs) THEN LeafUndefined
              ELSE IF point.index < 0 THEN LeafThrows  \* children[-1][0]
              ELSE IF point.kind # cs[point.index + 1].ty THEN LeafUndefined
              ELSE LeafLoop(cs[point.index + 1].elem, Tail(points))

\* path.slice(1)
Slice1(p) == IF p = <<>> THEN <<>> ELSE Tail(p)

resolveSourceLeaf(elem, p) ==
    LeafLoop(FirstByClassName(elem, "typst-page"), Slice1(p))

(***************************************************************************)
(* JavaScript numbers: a finite number is the rational n/d in lowest terms *)
(* (d > 0); NaN and the two infinities are values of their own.  Rounding  *)
(* of IEEE doubles and the sign of zero are not modelled.                  *)
(***************************************************************************)
RECURSIVE Gcd(_, _)
Gcd(a, b) == IF b = 0 THEN a ELSE Gcd(b, a % b)
Abs(a) == IF a < 0 THEN -a ELSE a

NaN == [k |-> "NaN", n |-> 0, d |-> 1]
Infinity(sign) == [k |-> "Infinity", n |-> sign, d |-> 1]
Num(n, d) ==
    LET g == Gcd(Abs(n), Abs(d))
        sg == IF d < 0 THEN -1 ELSE 1
    IN [k |-> "num", n |-> sg * (n \div g), d |-> sg * (d \div g)]
JsInt(n) == [k |-> "num", n |-> n, d |-> 1]
IsFinite(a) == a.k = "num"
Sign(a) == IF a.n > 0 THEN 1 ELSE IF a.n < 0 THEN -1 ELSE 0

JsAdd(a, b) ==
    IF a.k = "NaN" \/ b.k = "NaN" THEN NaN
    ELSE IF a.k = "Infinity" /\ b.k = "Infinity" THEN (IF a.n = b.n THEN a ELSE NaN)
    ELSE IF a.k = "Infinity" THEN a
    ELSE IF b.k = "Infinity" THEN b
    ELSE Num(a.n * b.d + b.n * a.d, a.d * b.d)

JsNeg(a) == IF a.k = "NaN" THEN NaN ELSE [a EXCEPT !.n = -(a.n)]
JsSub(a, b) == JsAdd(a, JsNeg(b))

JsMul(a, b) ==
    IF a.k = "NaN" \/ b.k = "NaN" THEN NaN
    ELSE IF a.k = "Infinity" \/ b.k = "Infinity"
         THEN (IF Sign(a) * Sign(b) = 0 THEN NaN ELSE Infinity(Sign(a) * Sign(b)))
    ELSE Num(a.n * b.n, a.d * b.d)

JsDiv(a, b) ==
    IF a.k = "NaN" \/ b.k = "NaN" THEN NaN
    ELSE IF a.k = "Infinity" THEN (IF b.k = "Infinity" THEN NaN
                                   ELSE Infinity(IF Sign(b) < 0 THEN -(a.n) ELSE a.n))
    ELSE IF b.k = "Infinity" THEN JsInt(0)
    ELSE IF b.n = 0 THEN (IF a.n = 0 THEN NaN ELSE Infinity(Sign(a)))
    ELSE Num(a.n * b.d, a.d * b.n)

\* a < b and a >= b; a comparison with NaN is false.
JsLt(a, b) ==
    /\ a.k # "NaN" /\ b.k # "NaN"
    /\ IF a.k = "Infinity" THEN a.n < 0 /\ b # a
       ELSE IF b.k = "Infinity" THEN b.n > 0
       ELSE a.n * b.d < b.n * a.d
JsGt(a, b) == JsLt(b, a)
JsGe(a, b) == a.k # "NaN" /\ b.k # "NaN" /\ ~JsLt(a, b)

(***************************************************************************)
(* Strings are sequences of one-character strings; an attribute that is    *)
(* not set reads as null.                                                  *)
(***************************************************************************)
Null == [isNull |-> TRUE, text |-> <<>>]
Str(t) == [isNull |-> FALSE, text |-> t]

Digits == <<"0", "1", "2", "3", "4", "5", "6", "7", "8", "9">>
IsDigit(c) == \E i \in 1..Len(Digits) : Digits[i] = c
DigitOf(c) == (CHOOSE i \in 1..Len(Digits) : Digits[i] = c) - 1

\* The position after the digits that start at position i of t.
RECURSIVE DigitsEnd(_, _)
DigitsEnd(t, i) == IF i <= Len(t) /\ IsDigit(t[i]) THEN DigitsEnd(t, i + 1) ELSE i

\* The value of the digits t[i..j-1] read after the value acc.
RECURSIVE DigitsValue(_, _, _, _)
DigitsValue(t, i, j, acc) ==
    IF i >= j THEN acc ELSE DigitsValue(t, i + 1, j, 10 * acc + DigitOf(t[i]))

RECURSIVE Pow10(_)
Pow10(e) == IF e = 0 THEN 1 ELSE 10 * Pow10(e - 1)

RECURSIVE SkipSpace(_, _)
SkipSpace(t, i) == IF i <= Len(t) /\ t[i] = " " THEN SkipSpace(t, i + 1) ELSE i

\* Number.parseInt(s) for a string s (radix 10; no "0x" prefix among the
\* strings of the model): leading blanks, a sign, then the longest run of digits.
parseInt(s) ==
    LET t == s.text
        a == SkipSpace(t, 1)
        neg == a <= Len(t) /\ t[a] = "-"
        b == IF a <= Len(t) /\ t[a] \in {"-", "+"} THEN a + 1 ELSE a
        e == DigitsEnd(t, b)
    IN IF e = b THEN NaN
       ELSE JsInt((IF neg THEN -1 ELSE 1) * DigitsValue(t, b, e, 0))

\* Number.parseFloat(s) for a string s: leading blanks, a sign, digits, and a
\* fraction after a "." (no exponent and no "Infinity" among the strings of
\* the model).
parseFloat(s) ==
    LET t == s.text
        a == SkipSpace(t, 1)
        neg == a <= Len(t) /\ t[a] = "-"
        b == IF a <= Len(t) /\ t[a] \in {"-", "+"} THEN a + 1 ELSE a
        e == DigitsEnd(t, b)
        hasDot == e <= Len(t) /\ t[e] = "."
        f == IF hasDot THEN DigitsEnd(t, e + 1) ELSE e
        fracLen == IF hasDot THEN f - (e + 1) ELSE 0
    IN IF e = b /\ fracLen = 0 THEN NaN
       ELSE LET whole == DigitsValue(t, b, e, 0)
                mantissa == IF hasDot THEN DigitsValue(t, e + 1, f, whole) ELSE whole
            IN Num((IF neg THEN -1 ELSE 1) * mantissa, Pow10(fracLen))

\* !s for a string or null
Falsy(s) == s.isNull \/ s.text = <<>>

(***************************************************************************)
(* The click locator: resolveFrameLoc and the handler around it.           *)
(***************************************************************************)
IndexIn(seq, n) == CHOOSE i \in 1..Len(seq) : seq[i] = n
IsChildOf(n, p) == \E i \in 1..Len(children[p]) : children[p][i] = n

\* elem.parentElement
parentElement(elem) ==
    IF \E p \in used : IsChildOf(elem, p)
    THEN CHOOSE p \in used : IsChildOf(elem, p)
    ELSE NoElem

\* elem.previousElementSibling
previousElementSibling(elem) ==
    LET p == parentElement(elem) IN
    IF p = NoElem THEN NoElem
    ELSE LET i == IndexIn(children[p], elem) IN
         IF i = 1 THEN NoElem ELSE children[p][i - 1]

\* getNthBackgroundRect: the loop over curElem, and the fallback `return elem`.
RECURSIVE BackgroundLoop(_, _, _)
BackgroundLoop(curElem, pageNumber, elem) ==
    IF curElem = NoElem THEN elem
    ELSE IF /\ "typst-page-inner" \in classList[curElem]
            /\ attributes[curElem].number = pageNumber
         THEN curElem
         ELSE BackgroundLoop(previousElementSibling(curElem), pageNumber, elem)

getNthBackgroundRect(elem, pageNumber) == BackgroundLoop(elem, pageNumber, elem)

\* The while loop of resolveFrameLoc. ret: the loop was left by `return`;
\* may: the value of mayPageElem when the loop was left.
RECURSIVE PageWalk(_, _)
PageWalk(elem, mayPageElem) ==
    IF elem = NoElem THEN [ret |-> FALSE, may |-> mayPageElem]
    ELSE LET m == castToSourceMappingElement(elem) IN
         IF m.ok /\ m.ty = Page THEN [ret |-> FALSE, may |-> m]
         ELSE IF elem = docRoot THEN [ret |-> TRUE, may |-> m]
         ELSE PageWalk(parentElement(elem), m)

\* A FrameLocation, and the value undefined.
FrameLoc(page_no, x, y) == [ok |-> TRUE, page_no |-> page_no, x |-> x, y |-> y]
NoFrameLoc == [ok |-> FALSE, page_no |-> NaN, x |-> NaN, y |-> NaN]

\* page_no without the + 1: the stored index exposed as it is.
PageNoZeroBased(pageNumber) == parseInt(pageNumber)

\* Number.parseInt(pageNumber) + 1
PageNo(pageNumber) == JsAdd(parseInt(pageNumber), JsInt(1))

\* What resolveFrameLoc does once it holds mayPageElem.
LocateOnPage(x, y, pageElem) ==
    LET pageNumber == attributes[pageElem].number
        backgroundRect == getNthBackgroundRect(pageElem, pageNumber)
        pageRect == rects[backgroundRect]
        pageX == JsSub(JsInt(x), JsInt(pageRect.left))
        pageY == JsSub(JsInt(y), JsInt(pageRect.top))
        xPercent == JsDiv(pageX, JsInt(pageRect.width))
        yPercent == JsDiv(pageY, JsInt(pageRect.height))
        dataWidthS == attributes[pageElem].width
        dataHeightS == attributes[pageElem].height
    IN IF Falsy(pageNumber) \/ Falsy(dataWidthS) \/ Falsy(dataHeightS) THEN NoFrameLoc
       ELSE FrameLoc(PageNo(pageNumber),
                     JsMul(xPercent, parseFloat(dataWidthS)),
                     JsMul(yPercent, parseFloat(dataHeightS)))

\* pageElem of resolveFrameLoc (NoElem when the function returns before it).
PageElemOf(target) ==
    LET w == PageWalk(target, NotMapped) IN
    IF w.ret \/ ~w.may.ok THEN NoElem ELSE w.may.elem

resolveFrameLoc(x, y, target) ==
    LET pageElem == PageElemOf(target) IN
    IF pageElem = NoElem THEN NoFrameLoc ELSE LocateOnPage(x, y, pageElem)

\* docRoot.sourceMappingHandler when the property is absent.
NoHandler == 0

RECURSIVE Without(_, _)
Without(ls, h) ==
    IF ls = <<>> THEN <<>>
    ELSE (IF Head(ls) = h THEN <<>> ELSE <<Head(ls)>>) \o Without(Tail(ls), h)

\* addEventListener("click", h): a callback already registered is not added again.
AddListener(ls, h) == IF \E i \in 1..Len(ls) : ls[i] = h THEN ls ELSE Append(ls, h)

\* removeSourceMappingHandler that drops the property but not the listener.
ListenersKept(ls, prev) == ls

\* The click listeners of docRoot after removeSourceMappingHandler(docRoot),
\* prev being docRoot.sourceMappingHandler.
ListenersAfterRemove(ls, prev) == IF prev # NoHandler THEN Without(ls, prev) ELSE ls

removeSourceMappingHandler ==
    /\ Len(calls) < MaxCalls
    /\ listeners' = ListenersAfterRemove(listeners, handlerProp)
    /\ handlerProp' = NoHandler
    /\ calls' = Append(calls, "remove")
    /\ UNCHANGED <<domVars, phase, leafVars, docRoot, installs, microtasks, effects,
                   clicks, scrollVars>>

installEditorJumpToHandler ==
    /\ Len(calls) < MaxCalls
    /\ LET sourceMappingHandler == installs + 1 IN
         /\ installs' = sourceMappingHandler
         /\ handlerProp' = sourceMappingHandler
         /\ listeners' = AddListener(ListenersAfterRemove(listeners, handlerProp),
                                     sourceMappingHandler)
    /\ calls' = Append(calls, "install")
    /\ UNCHANGED <<domVars, phase, leafVars, docRoot, microtasks, effects, clicks,
                   scrollVars>>

\* JSON.stringify of a number: NaN and the infinities are written null.
JsonNull == [k |-> "null", n |-> 0, d |-> 1]
JsonNumber(a) == IF IsFinite(a) THEN a ELSE JsonNull

\* window.typstWebsocket.send(`src-point ${JSON.stringify(frameLoc)}`)
SendEffect(frameLoc) ==
    [op |-> "send", page_no |-> JsonNumber(frameLoc.page_no),
     x |-> JsonNumber(frameLoc.x), y |-> JsonNumber(frameLoc.y)]

\* triggerRipple(triggerWindow, left, top, ..)
RippleEffect(left, top) == [op |-> "ripple", left |-> left, top |-> top]

\* The handler without its `if (!frameLoc) return`.
HandlerTailUnguarded(inv) ==
    <<SendEffect(inv.frameLoc),
      RippleEffect(inv.x - view.body.left, inv.y - view.body.top)>>

\* sourceMappingHandler after its await: inv holds the resolved frameLoc and
\* the client coordinates of the event.
HandlerTail(inv) ==
    IF ~inv.frameLoc.ok THEN <<>>
    ELSE <<SendEffect(inv.frameLoc),
           RippleEffect(inv.x - view.body.left, inv.y - view.body.top)>>

RECURSIVE Repeat(_, _)
Repeat(v, n) == IF n = 0 THEN <<>> ELSE <<v>> \o Repeat(v, n - 1)

\* A click event with the given target and client coordinates reaches docRoot:
\* every registered listener runs sourceMappingHandler up to its await.
Click(target, x, y) ==
    /\ Len(clicks) < MaxClicks
    /\ LET frameLoc == resolveFrameLoc(x, y, target)
           n == Len(listeners)
       IN /\ clicks' = Append(clicks, [target |-> target, x |-> x, y |-> y,
                                       ncalls |-> Len(calls),
                                       results |-> Repeat(frameLoc, n)])
          /\ microtasks' = microtasks \o Repeat([frameLoc |-> frameLoc, x |-> x, y |-> y], n)
    /\ UNCHANGED <<domVars, phase, leafVars, docRoot, handlerProp, listeners, installs,
                   calls, effects, scrollVars>>

\* The oldest suspended handler invocation runs from its await to its end.
Resume ==
    /\ microtasks # <<>>
    /\ effects' = effects \o HandlerTail(Head(microtasks))
    /\ microtasks' = Tail(microtasks)
    /\ UNCHANGED <<domVars, phase, leafVars, docRoot, handlerProp, listeners, installs,
                   calls, clicks, scrollVars>>

(***************************************************************************)
(* SpecLeaf: a rendered tree is built below the element LeafRoot, then     *)
(* resolveSourceLeaf is called on it with a path; after a successful call  *)
(* nodes of the descent are wrapped and the call is repeated.              *)
(***************************************************************************)
LeafRoot == 1
Elems == 1..(1 + MaxNodes + MaxWraps)

NodeClasses == { {}, {"typst-text"}, {"typst-group"}, {"typst-page"} }
WrapperClasses == { {}, {"typst-wrapper"} }

PathKinds == {Group, CharIndex}
PathIndexes == {-1, 0, 1}
Points == [kind : PathKinds, index : PathIndexes]
RootMarker == [kind |-> Page, index |-> 0]

\* Sequences of at most n points in which a CharIndex point, if present, is
\* the last one (ElementPoint[] as the renderer produces it).
RECURSIVE PointSeqs(_)
PointSeqs(n) ==
    IF n = 0 THEN { <<>> }
    ELSE LET shorter == PointSeqs(n - 1) IN
         shorter \cup { Append(s, p) :
                          s \in {t \in shorter : /\ Len(t) = n - 1
                                                 /\ \A i \in 1..Len(t) : t[i].kind # CharIndex},
                          p \in Points }

SourcePaths == { <<>> } \cup { <<RootMarker>> \o s : s \in PointSeqs(MaxPoints) }

NoAttributes == [number |-> Null, width |-> Null, height |-> Null]
NoRect == [left |-> 0, top |-> 0, width |-> 0, height |-> 0]
NoView == [innerWidth |-> 0, innerHeight |-> 0, body |-> NoRect]

InitIdle ==
    /\ docRoot = NoElem
    /\ handlerProp = NoHandler
    /\ listeners = <<>>
    /\ installs = 0
    /\ calls = <<>>
    /\ view = NoView
    /\ microtasks = <<>>
    /\ effects = <<>>
    /\ clicks = <<>>
    /\ scrollArgs = <<>>
    /\ scrollOut = <<>>

InitLeaf ==
    /\ children = [n \in Elems |-> <<>>]
    /\ classList = [n \in Elems |-> {}]
    /\ attributes = [n \in Elems |-> NoAttributes]
    /\ rects = [n \in Elems |-> NoRect]
    /\ used = {LeafRoot}
    /\ phase = "build"
    /\ path = <<>>
    /\ leaf = LeafNotRun
    /\ base = LeafNotRun
    /\ wraps = 0
    /\ InitIdle

\* The elements from LeafRoot down its last children: where the next element
\* in document order can be appended.
RECURSIVE RightSpine(_)
RightSpine(n) ==
    IF children[n] = <<>> THEN {n}
    ELSE {n} \cup RightSpine(children[n][Len(children[n])])

NextElem == Cardinality(used) + 1

\* The renderer appends an element with class list c below p.
AddChild(p, c) ==
    /\ phase = "build"
    /\ Cardinality(used) < 1 + MaxNodes
    /\ children' = [children EXCEPT ![p] = Append(@, NextElem)]
    /\ classList' = [classList EXCEPT ![NextElem] = c]
    /\ used' = used \cup {NextElem}
    /\ UNCHANGED <<attributes, rects, phase, leafVars, handlerVars, scrollVars>>

\* resolveSourceLeaf(LeafRoot, p)
Resolve(p) ==
    /\ phase = "build"
    /\ phase' = "resolved"
    /\ path' = p
    /\ leaf' = resolveSourceLeaf(LeafRoot, p)
    /\ base' = leaf'
    /\ UNCHANGED <<domVars, wraps, handlerVars, scrollVars>>

\* The elements resolveSourceLeaf(LeafRoot, p) selects below the page.
DescentNodes(p) ==
    LET pts == Slice1(p)
        page == FirstByClassName(LeafRoot, "typst-page")
    IN { LeafLoop(page, SubSeq(pts, 1, k)).elem :
            k \in { j \in 1..Len(pts) : \A i \in 1..j : pts[i].kind # CharIndex } }

ParentOf(n) == CHOOSE p \in used : \E i \in 1..Len(children[p]) : children[p][i] = n

\* The sequence s with its entry n replaced by w.
RECURSIVE Replaced(_, _, _)
Replaced(s, n, w) ==
    IF s = <<>> THEN <<>>
    ELSE <<IF Head(s) = n THEN w ELSE Head(s)>> \o Replaced(Tail(s), n, w)

\* The renderer replaces n by a wrapper with class list c whose only child is n.
Wrap(n, c) ==
    /\ phase = "resolved"
    /\ base.tag = "pair"
    /\ wraps < MaxWraps
    /\ children' = [children EXCEPT ![ParentOf(n)] = Replaced(@, n, NextElem),
                                    ![NextElem] = <<n>>]
    /\ classList' = [classList EXCEPT ![NextElem] = c]
    /\ used' = used \cup {NextElem}
    /\ wraps' = wraps + 1
    /\ phase' = "wrapped"
    /\ UNCHANGED <<attributes, rects, path, leaf, base, handlerVars, scrollVars>>

\* resolveSourceLeaf(LeafRoot, path) again, on the tree as wrapped.
ResolveAgain ==
    /\ phase = "wrapped"
    /\ phase' = "resolved"
    /\ leaf' = resolveSourceLeaf(LeafRoot, path)
    /\ UNCHANGED <<domVars, path, base, wraps, handlerVars, scrollVars>>

NextLeaf ==
    \/ /\ phase = "build"
       /\ \E p \in RightSpine(LeafRoot), c \in NodeClasses : AddChild(p, c)
    \/ \E p \in SourcePaths : Resolve(p)
    \/ /\ phase = "resolved"
       /\ base.tag = "pair"
       /\ \E n \in DescentNodes(path), c \in WrapperClasses : Wrap(n, c)
    \/ ResolveAgain

SpecLeaf == InitLeaf /\ [][NextLeaf]_vars

(***************************************************************************)
(* Documents for the click locator.                                        *)
(***************************************************************************)
Rect(l, t, w, h) == [left |-> l, top |-> t, width |-> w, height |-> h]
ExampleRect == Rect(100, 50, 200, 100)
ValidAttributes ==
    [number |-> Str(<<"0">>), width |-> Str(<<"6", "0", "0">>),
     height |-> Str(<<"8", "0", "0">>)]
ClickView == [innerWidth |-> 1000, innerHeight |-> 800, body |-> Rect(-20, -300, 1000, 3000)]

\* The elements of set S in increasing order.
RECURSIVE Sorted(_)
Sorted(S) ==
    IF S = {} THEN <<>>
    ELSE LET m == CHOOSE x \in S : \A y \in S : x <= y IN <<m>> \o Sorted(S \ {m})

\* The state installEditorJumpToHandler(root) leaves on a root without handler.
InitInstalled(root) ==
    /\ docRoot = root
    /\ installs = 1
    /\ handlerProp = 1
    /\ listeners = <<1>>
    /\ calls = <<"install">>
    /\ microtasks = <<>>
    /\ effects = <<>>
    /\ clicks = <<>>

InitNoLeaf ==
    /\ phase = "click"
    /\ path = <<>>
    /\ leaf = LeafNotRun
    /\ base = LeafNotRun
    /\ wraps = 0
    /\ scrollArgs = <<>>
    /\ scrollOut = <<>>

(***************************************************************************)
(* SpecWalk: one click on a document of MaxDomNodes elements, any element  *)
(* of which is the root the handler is installed on or the event target.   *)
(* The document is the one the handler finds: the event path is fixed at   *)
(* dispatch, and a listener run earlier on that path may have taken the    *)
(* target's subtree out of the root, so the target need not be below the   *)
(* root any more.                                                          *)
(***************************************************************************)
DomElems == 1..MaxDomNodes
WalkClasses == { {}, {"typst-text"}, {"typst-page"} }
WalkParents == { par \in [DomElems -> {NoElem} \cup DomElems] : \A n \in DomElems : par[n] < n }

InitWalk ==
    /\ used = DomElems
    /\ \E par \in WalkParents :
          children = [n \in DomElems |-> Sorted({m \in DomElems : par[m] = n})]
    /\ classList \in [DomElems -> WalkClasses]
    /\ attributes \in [DomElems -> {NoAttributes, ValidAttributes}]
    /\ rects = [n \in DomElems |-> ExampleRect]
    /\ view = ClickView
    /\ \E root \in DomElems : InitInstalled(root)
    /\ InitNoLeaf

ExampleClicks == { <<150, 75>> }

NextWalk ==
    \/ /\ clicks = <<>>
       /\ \E target \in used, c \in ExampleClicks : Click(target, c[1], c[2])
    \/ Resume

SpecWalk == InitWalk /\ [][NextWalk]_vars

(***************************************************************************)
(* SpecLoc: one click on the document                                      *)
(*     root > [ background, page > [ text ] ]                              *)
(* whose page attributes, background element and rectangles vary.          *)
(***************************************************************************)
LocRoot == 1
LocBackground == 2
LocPage == 3
LocText == 4
LocElems == {LocRoot, LocBackground, LocPage, LocText}

NumberValues == { Null, Str(<<>>), Str(<<"0">>), Str(<<"1">>), Str(<<"a">>) }
WidthValues == { Null, Str(<<>>), Str(<<"6", "0", "0">>), Str(<<"a">>), Str(<<"2", ".", "5">>) }
HeightValues == { Null, Str(<<"8", "0", "0">>), Str(<<"a">>) }
BackgroundRects == { ExampleRect, Rect(0, 0, 0, 0) }
PageRects == { Rect(50, 25, 100, 200) }
LocClicks == { <<150, 75>>, <<100, 250>> }

LocChildren ==
    [n \in LocElems |-> IF n = LocRoot THEN <<LocBackground, LocPage>>
                        ELSE IF n = LocPage THEN <<LocText>> ELSE <<>>]

InitLoc ==
    /\ used = LocElems
    /\ children = LocChildren
    /\ \E bg \in { {}, {"typst-page-inner"} } :
          classList = [n \in LocElems |->
                         IF n = LocBackground THEN bg
                         ELSE IF n = LocPage THEN {"typst-page"}
                         ELSE IF n = LocText THEN {"typst-text"} ELSE {}]
    /\ \E bn \in {Str(<<"0">>), Str(<<"1">>)}, pn \in NumberValues,
          pw \in WidthValues, ph \in HeightValues :
          attributes = [n \in LocElems |->
                          IF n = LocBackground THEN [NoAttributes EXCEPT !.number = bn]
                          ELSE IF n = LocPage
                               THEN [number |-> pn, width |-> pw, height |-> ph]
                               ELSE NoAttributes]
    /\ \E br \in BackgroundRects, pr \in PageRects :
          rects = [n \in LocElems |->
                     IF n = LocBackground THEN br ELSE IF n = LocPage THEN pr ELSE NoRect]
    /\ view = ClickView
    /\ InitInstalled(LocRoot)
    /\ InitNoLeaf

NextLoc ==
    \/ /\ clicks = <<>>
       /\ \E target \in used, c \in LocClicks : Click(target, c[1], c[2])
    \/ Resume

SpecLoc == InitLoc /\ [][NextLoc]_vars

(***************************************************************************)
(* SpecHandler: installEditorJumpToHandler and removeSourceMappingHandler  *)
(* are called on one root in any order while clicks arrive; a click on the *)
(* text resolves, a click on the root itself does not.                     *)
(***************************************************************************)
InitHandler ==
    /\ used = LocElems
    /\ children = LocChildren
    /\ classList = [n \in LocElems |->
                      IF n = LocBackground THEN {"typst-page-inner"}
                      ELSE IF n = LocPage THEN {"typst-page"}
                      ELSE IF n = LocText THEN {"typst-text"} ELSE {}]
    /\ attributes = [n \in LocElems |->
                       IF n = LocBackground THEN [NoAttributes EXCEPT !.number = Str(<<"0">>)]
                       ELSE IF n = LocPage THEN ValidAttributes ELSE NoAttributes]
    /\ rects = [n \in LocElems |-> IF n = LocBackground THEN ExampleRect ELSE NoRect]
    /\ view = ClickView
    /\ docRoot = LocRoot
    /\ installs = 0
    /\ handlerProp = NoHandler
    /\ listeners = <<>>
    /\ calls = <<>>
    /\ microtasks = <<>>
    /\ effects = <<>>
    /\ clicks = <<>>
    /\ InitNoLeaf

NextHandler ==
    \/ installEditorJumpToHandler
    \/ removeSourceMappingHandler
    \/ \E target \in {LocRoot, LocText}, c \in ExampleClicks : Click(target, c[1], c[2])
    \/ Resume

SpecHandler == InitHandler /\ [][NextHandler]_vars

(***************************************************************************)
(* scrollTo of DebugJumpDocument.                                          *)
(***************************************************************************)
\* window.innerWidth * 0.01, window.innerHeight * 0.01
ViewportPw == JsMul(JsInt(view.innerWidth), Num(1, 100))
ViewportPh == JsMul(JsInt(view.innerHeight), Num(1, 100))

\* The share of the viewport width the page takes (page over viewport), as
\* the name suggests: not what line 251 computes.
WidthOccupiedOfPage(pageRect) ==
    JsDiv(JsMul(JsInt(100), JsInt(pageRect.width)), JsMul(JsInt(100), ViewportPw))

\* (100 * 100 * pw) / pageRect.width
WidthOccupied(pageRect) ==
    JsDiv(JsMul(JsInt(100 * 100), ViewportPw), JsInt(pageRect.width))

\* The object passed to window.scrollTo.
ScrollTarget(pageRect, innerLeft, innerTop) ==
    LET basePos == view.body
        left == JsInt(innerLeft - basePos.left)
        top == JsInt(innerTop - basePos.top)
        xOffsetInnerFix == JsMul(JsInt(7), ViewportPw)
        yOffsetInnerFix == JsMul(Num(382, 10), ViewportPh)
        xOffset == JsSub(left, xOffsetInnerFix)
        yOffset == JsSub(top, yOffsetInnerFix)
        widthOccupied == WidthOccupied(pageRect)
        pageAdjustLeft == JsSub(JsInt(pageRect.left - basePos.left), JsMul(JsInt(5), ViewportPw))
        pageAdjust == JsSub(JsInt(pageRect.left - basePos.left + pageRect.width),
                            JsMul(JsInt(95), ViewportPw))
    IN IF JsGe(widthOccupied, JsInt(90)) \/ JsLt(widthOccupied, JsInt(50))
       THEN [op |-> "scrollTo", left |-> xOffset, top |-> yOffset]
       ELSE LET xOffsetAdjsut == IF JsGt(xOffset, pageAdjust) THEN pageAdjust
                                 ELSE pageAdjustLeft
            IN [op |-> "scrollTo", left |-> xOffsetAdjsut, top |-> yOffset]

\* scrollTo(pageRect, pageNo, innerLeft, innerTop) of a document in the given
\* preview mode: the calls it makes, in order.
scrollTo(previewMode, pageRect, pageNo, innerLeft, innerTop) ==
    IF previewMode = "Slide"
    THEN << [op |-> "setPartialPageNumber", pageNo |-> pageNo] >>
    ELSE << ScrollTarget(pageRect, innerLeft, innerTop),
            RippleEffect(innerLeft - view.body.left, innerTop - view.body.top) >>

(***************************************************************************)
(* SpecScroll: scrollTo is called once in a window of some size, scrolled  *)
(* to some position, on a page rectangle of some width.                    *)
(***************************************************************************)
InnerWidths == {900, 1000}
InnerHeights == {600}
BodyRects == { Rect(0, 0, 1000, 4000), Rect(-300, -500, 2400, 4000) }
PageWidths == {0, 400, 700, 1000, 1200, 1500, 2000, 2400}
PageLefts == {-600, 0, 40}
InnerLefts == {100, 700}
InnerTops == {300}
PageNos == {1, 2}
PreviewModes == {"Doc", "Slide"}

InitScroll ==
    /\ children = <<>>
    /\ classList = <<>>
    /\ attributes = <<>>
    /\ rects = <<>>
    /\ used = {}
    /\ phase = "scroll"
    /\ path = <<>>
    /\ leaf = LeafNotRun
    /\ base = LeafNotRun
    /\ wraps = 0
    /\ docRoot = NoElem
    /\ handlerProp = NoHandler
    /\ listeners = <<>>
    /\ installs = 0
    /\ calls = <<>>
    /\ microtasks = <<>>
    /\ effects = <<>>
    /\ clicks = <<>>
    /\ view \in [innerWidth : InnerWidths, innerHeight : InnerHeights, body : BodyRects]
    /\ scrollArgs = <<>>
    /\ scrollOut = <<>>

ScrollTo(previewMode, pageRect, pageNo, innerLeft, innerTop) ==
    /\ scrollArgs = <<>>
    /\ scrollArgs' = << [previewMode |-> previewMode, pageRect |-> pageRect,
                         pageNo |-> pageNo, innerLeft |-> innerLeft,
                         innerTop |-> innerTop] >>
    /\ scrollOut' = scrollTo(previewMode, pageRect, pageNo, innerLeft, innerTop)
    /\ UNCHANGED <<domVars, phase, leafVars, handlerVars, view>>

NextScroll ==
    \E m \in PreviewModes, w \in PageWidths, l \in PageLefts, no \in PageNos,
       il \in InnerLefts, it \in InnerTops :
        ScrollTo(m, Rect(l, 80, w, 1200), no, il, it)

SpecScroll == InitScroll /\ [][NextScroll]_vars

(***************************************************************************)
(* Properties of resolveSourceLeaf, checked under SpecLeaf.                *)
(***************************************************************************)
PageNode == FirstByClassName(LeafRoot, "typst-page")
Called == phase = "resolved"
PathPoints == Slice1(path)
Front(s) == SubSeq(s, 1, Len(s) - 1)
Last(s) == s[Len(s)]

\* Point k of the path is reached with a current node whose classified children
\* do not hold an entry of the point's kind at the point's index.
MismatchAt(k) ==
    /\ \A i \in 1..k : PathPoints[i].kind # CharIndex
    /\ LET before == LeafLoop(PageNode, SubSeq(PathPoints, 1, k - 1))
           point == PathPoints[k]
       IN /\ before.tag = "pair"
          /\ before.elem # NoElem
          /\ LET cs == castChildrenToSourceMappingElement(before.elem) IN
                \/ point.index < 0
                \/ point.index >= Len(cs)
                \/ cs[point.index + 1].ty # point.kind

\* C2: a path point whose index is out of the range of the classified children
\* of the current node (negative, or at or beyond the length, the empty list
\* included) or whose kind differs from the entry at its index makes
\* resolveSourceLeaf return undefined: it does not throw and returns no node.
C2_MismatchIsNotFound ==
    (Called /\ \E k \in 1..Len(PathPoints) : MismatchAt(k)) => leaf = LeafUndefined

\* C3: on a tree with no page node resolveSourceLeaf returns undefined for
\* every path: no pair with an absent node, no exception.
C3_NoPageIsNotFound ==
    (Called /\ PageNode = NoElem) => leaf = LeafUndefined

\* C4: after any number of untagged single-child wrappers put around nodes of
\* the descent of a path that resolved, resolveSourceLeaf returns the node
\* and the offset it returned on the tree without the wrappers.
C4_PassThrough ==
    (Called /\ base.tag = "pair" /\ base.elem # NoElem) => leaf = base

C4_Witness ==
    /\ Called
    /\ wraps = MaxWraps
    /\ Len(PathPoints) >= 2
    /\ base.tag = "pair"
    /\ base.elem \notin {NoElem, PageNode}
    /\ leaf = base

\* C5: a path ending in a CharIndex point resolves to the node the path
\* without that point resolves to (which comes with offset 0) and the point's
\* index as offset, and fails as that shorter path fails; a path without a
\* CharIndex point that resolves has offset 0.
C5_CharIndexTerminal ==
    Called =>
      /\ (Len(PathPoints) >= 1 /\ Last(path).kind = CharIndex) =>
            LET shorter == resolveSourceLeaf(LeafRoot, Front(path)) IN
            IF shorter.tag = "pair"
            THEN shorter.offset = 0 /\ leaf = LeafPair(shorter.elem, Last(path).index)
            ELSE leaf = shorter
      /\ ((\A i \in 1..Len(PathPoints) : PathPoints[i].kind # CharIndex) /\ leaf.tag = "pair")
            => leaf.offset = 0

C5_Witness ==
    /\ Called
    /\ Len(PathPoints) >= 2
    /\ Last(path).kind = CharIndex
    /\ Last(path).index > 0
    /\ leaf.tag = "pair"
    /\ leaf.elem \notin {NoElem, PageNode}
    /\ leaf.offset = Last(path).index

(***************************************************************************)
(* Properties of the handler, checked under SpecHandler.                   *)
(***************************************************************************)
CallAt(k) == IF k = 0 THEN "none" ELSE calls[k]
ExpectedListeners(call) == IF call = "install" THEN 1 ELSE 0

\* C1: after any sequence of installEditorJumpToHandler and
\* removeSourceMappingHandler calls on the root, the root holds exactly one
\* click listener of this module if the last call was an install and none if
\* it was a remove or no call was made; so a click makes exactly one
\* resolution attempt after an install (even a repeated one) and none otherwise.
C1_OneHandlerPerRoot ==
    /\ Len(listeners) = ExpectedListeners(CallAt(Len(calls)))
    /\ \A i \in 1..Len(clicks) :
          Len(clicks[i].results) = ExpectedListeners(CallAt(clicks[i].ncalls))

C1_Witness ==
    /\ Len(calls) >= 2
    /\ calls[1] = "install"
    /\ calls[2] = "install"
    /\ Len(listeners) = 1
    /\ \E i \in 1..Len(clicks) : clicks[i].ncalls = 2 /\ Len(clicks[i].results) = 1

\* The handler invocations started so far, oldest first.
RECURSIVE InvocationsOf(_)
InvocationsOf(cs) ==
    IF cs = <<>> THEN <<>>
    ELSE LET c == Head(cs) IN
         [i \in 1..Len(c.results) |-> [frameLoc |-> c.results[i], x |-> c.x, y |-> c.y]]
           \o InvocationsOf(Tail(cs))

Completed ==
    LET all == InvocationsOf(clicks) IN SubSeq(all, 1, Len(all) - Len(microtasks))

\* What the claim lets a sequence of finished invocations do.
RECURSIVE AllowedEffects(_)
AllowedEffects(invs) ==
    IF invs = <<>> THEN <<>>
    ELSE LET inv == Head(invs) IN
         (IF inv.frameLoc.ok
          THEN << [op |-> "send", page_no |-> inv.frameLoc.page_no,
                   x |-> inv.frameLoc.x, y |-> inv.frameLoc.y],
                  [op |-> "ripple", left |-> inv.x - view.body.left,
                   top |-> inv.y - view.body.top] >>
          ELSE <<>>)
         \o AllowedEffects(Tail(invs))

Count(seq, Test(_)) == Cardinality({i \in 1..Len(seq) : Test(seq[i])})

\* C10: a click whose resolution fails causes no notification and no ripple; a
\* click whose resolution succeeds causes exactly one notification, carrying
\* the resolved FrameLocation, followed by its ripple; the notifications sent
\* are as many as the finished invocations that resolved.
C10_NotifyThenRipple ==
    /\ effects = AllowedEffects(Completed)
    /\ Count(effects, LAMBDA e : e.op = "send")
         = Count(Completed, LAMBDA inv : inv.frameLoc.ok)

C10_Witness ==
    /\ microtasks = <<>>
    /\ Len(Completed) = 2
    /\ ~Completed[1].frameLoc.ok
    /\ Completed[2].frameLoc.ok
    /\ Len(effects) = 2
    /\ effects[1].op = "send"
    /\ effects[2].op = "ripple"

(***************************************************************************)
(* Properties of resolveFrameLoc, checked under SpecLoc and SpecWalk.      *)
(***************************************************************************)
\* The numbers the attribute strings of the model stand for, as <<n, d>>;
\* the other strings of the model stand for no number.
NumericStrings ==
    { Str(<<"0">>), Str(<<"1">>), Str(<<"6", "0", "0">>), Str(<<"8", "0", "0">>),
      Str(<<"2", ".", "5">>) }
Declared(s) ==
    CASE s = Str(<<"0">>) -> <<0, 1>>
      [] s = Str(<<"1">>) -> <<1, 1>>
      [] s = Str(<<"6", "0", "0">>) -> <<600, 1>>
      [] s = Str(<<"8", "0", "0">>) -> <<800, 1>>
      [] s = Str(<<"2", ".", "5">>) -> <<5, 2>>

\* The background element of the page of SpecLoc: the sibling before it when
\* that is a background of the same page number, else the page itself.
ChosenBackground ==
    IF /\ "typst-page-inner" \in classList[LocBackground]
       /\ attributes[LocBackground].number = attributes[LocPage].number
    THEN LocBackground ELSE LocPage

\* v is the finite number with v * by = times * over[1] / over[2].
IsScaled(v, times, by, over) ==
    /\ v.k = "num"
    /\ v.n * by * over[2] = times * over[1] * v.d

\* C6: a successful click resolution returns page_no = stored page index + 1,
\* x = ((clickX - rect.left) / rect.width) * declaredWidth and
\* y = ((clickY - rect.top) / rect.height) * declaredHeight, rect being the
\* rectangle of the chosen background element; rect {100, 50, 200, 100},
\* click (150, 75), declared 600 x 800 and page index 0 give {1, 150, 200}.
\* The formulas are those of JavaScript numbers: an attribute that is no
\* number makes the field computed from it NaN.
C6_FrameLocFormula ==
    \A i \in 1..Len(clicks) : \A j \in 1..Len(clicks[i].results) :
        LET c == clicks[i]
            r == c.results[j]
            a == attributes[LocPage]
            rect == rects[ChosenBackground]
        IN /\ (r.ok /\ a.number \notin NumericStrings) => r.page_no.k = "NaN"
           /\ (r.ok /\ a.width \notin NumericStrings) => r.x.k = "NaN"
           /\ (r.ok /\ a.height \notin NumericStrings) => r.y.k = "NaN"
           /\ (/\ r.ok
               /\ {a.number, a.width, a.height} \subseteq NumericStrings
               /\ rect.width # 0 /\ rect.height # 0)
              => /\ r.page_no = [k |-> "num", n |-> Declared(a.number)[1] + 1, d |-> 1]
                 /\ IsScaled(r.x, c.x - rect.left, rect.width, Declared(a.width))
                 /\ IsScaled(r.y, c.y - rect.top, rect.height, Declared(a.height))
                 /\ (/\ rect = ExampleRect /\ c.x = 150 /\ c.y = 75
                     /\ a = ValidAttributes)
                    => /\ r.page_no = [k |-> "num", n |-> 1, d |-> 1]
                       /\ r.x = [k |-> "num", n |-> 150, d |-> 1]
                       /\ r.y = [k |-> "num", n |-> 200, d |-> 1]

C6_Witness ==
    /\ clicks # <<>>
    /\ clicks[1].results # <<>>
    /\ clicks[1].x = 150 /\ clicks[1].y = 75
    /\ attributes[LocPage] = ValidAttributes
    /\ ChosenBackground = LocBackground
    /\ rects[LocBackground] = ExampleRect
    /\ clicks[1].results[1] = [ok |-> TRUE, page_no |-> [k |-> "num", n |-> 1, d |-> 1],
                                x |-> [k |-> "num", n |-> 150, d |-> 1],
                                y |-> [k |-> "num", n |-> 200, d |-> 1]]

\* C7: click resolution fails whenever the page number, declared width or
\* declared height of the found page is missing or is no number, and no
\* FrameLocation with a page_no, x or y that is not a number is returned.
C7_MetadataRequired ==
    \A i \in 1..Len(clicks) : \A j \in 1..Len(clicks[i].results) :
        LET r == clicks[i].results[j]
            pageElem == PageElemOf(clicks[i].target)
        IN /\ (/\ pageElem # NoElem
               /\ \E s \in {attributes[pageElem].number, attributes[pageElem].width,
                              attributes[pageElem].height} : s \notin NumericStrings)
              => ~r.ok
           /\ r.ok => (r.page_no.k # "NaN" /\ r.x.k # "NaN" /\ r.y.k # "NaN")

\* The nearest ancestor-or-self of n that is classified Page, looked for no
\* higher than the root.
RECURSIVE NearestPage(_)
NearestPage(n) ==
    IF n = NoElem THEN NoElem
    ELSE LET m == castToSourceMappingElement(n) IN
         IF m.ok /\ m.ty = Page THEN n
         ELSE IF n = docRoot THEN NoElem
         ELSE NearestPage(parentElement(n))

\* C9: click resolution succeeds only with the nearest ancestor-or-self of the
\* target that is classified Page, found no higher than the root; when the walk
\* reaches the root or runs out of ancestors without meeting one, resolution
\* fails, so no node of another kind serves as the page node.
C9_OnlyPageAncestor ==
    \A i \in 1..Len(clicks) : \A j \in 1..Len(clicks[i].results) :
        LET r == clicks[i].results[j]
            nearest == NearestPage(clicks[i].target)
        IN /\ nearest = NoElem => ~r.ok
           /\ r.ok => PageElemOf(clicks[i].target) = nearest

(***************************************************************************)
(* Properties of scrollTo, checked under SpecScroll.                       *)
(***************************************************************************)
ScrollCalled == scrollArgs # <<>> /\ scrollArgs[1].previewMode # "Slide"

\* The quantities of the claim, each times 1000, from the arguments.
XOffset1000 == 1000 * (scrollArgs[1].innerLeft - view.body.left) - 70 * view.innerWidth
YOffset1000 == 1000 * (scrollArgs[1].innerTop - view.body.top) - 382 * view.innerHeight
PageAdjustLeft1000 ==
    1000 * (scrollArgs[1].pageRect.left - view.body.left) - 50 * view.innerWidth
PageAdjust1000 ==
    1000 * (scrollArgs[1].pageRect.left - view.body.left + scrollArgs[1].pageRect.width)
      - 950 * view.innerWidth
Is1000th(v, m) == v.k = "num" /\ v.n * 1000 = m * v.d

\* The scroll target the claim states, given which branch is taken.
TargetIs(direct) ==
    LET t == scrollOut[1] IN
    /\ t.op = "scrollTo"
    /\ Is1000th(t.top, YOffset1000)
    /\ IF direct THEN Is1000th(t.left, XOffset1000)
       ELSE IF XOffset1000 > PageAdjust1000 THEN Is1000th(t.left, PageAdjust1000)
       ELSE Is1000th(t.left, PageAdjustLeft1000)

\* C8 as stated: outside slide mode the target is {xOffset, yOffset} when the
\* page rectangle's width is >= 90% or < 50% of the viewport width, and the
\* right- or left-aligned adjustment (with top yOffset) otherwise.
C8_PageShareOfViewport ==
    ScrollCalled =>
      TargetIs(\/ 100 * scrollArgs[1].pageRect.width >= 90 * view.innerWidth
               \/ 100 * scrollArgs[1].pageRect.width < 50 * view.innerWidth)

\* C8 as amended: outside slide mode the target is {xOffset, yOffset} when the
\* viewport width is >= 90% or < 50% of the page rectangle's width
\* (widthOccupied = 100 * innerWidth / pageRect.width), and the right- or
\* left-aligned adjustment (with top yOffset) otherwise.
C8_ViewportShareOfPage ==
    ScrollCalled =>
      TargetIs(\/ 100 * view.innerWidth >= 90 * scrollArgs[1].pageRect.width
               \/ 100 * view.innerWidth < 50 * scrollArgs[1].pageRect.width)

C8_Witness ==
    /\ ScrollCalled
    /\ 100 * view.innerWidth < 90 * scrollArgs[1].pageRect.width
    /\ 100 * view.innerWidth >= 50 * scrollArgs[1].pageRect.width
    /\ XOffset1000 > PageAdjust1000
    /\ PageAdjust1000 # PageAdjustLeft1000
    /\ Is1000th(scrollOut[1].left, PageAdjust1000)
    /\ Is1000th(scrollOut[1].top, YOffset1000)

====
